---- MODULE Spec2Model ----
(***************************************************************************)
(* A model of the BinaryTree<T> container of "binary tree/BinaryTree.h"    *)
(* and of its second implementation "binary tree/BinaryTree.cpp".          *)
(*                                                                         *)
(* Nodes live in an explicit heap (address -> BTNode), so that ownership,  *)
(* sharing and leaks are visible.  The two files differ in the copy        *)
(* constructor, operator= and operator== only; the variable impl says      *)
(* which of the two was compiled.                                          *)
(*                                                                         *)
(* Spec      the operations that build, copy, assign and empty trees,      *)
(*           called in any order on the tree objects of Trees.             *)
(* SpecShape the const operations (queries, traversals, to_flat_array,     *)
(*           operator==) called on two trees of arbitrary shape.           *)
(***************************************************************************)
EXTENDS Integers, Naturals, Sequences, FiniteSets, TLC

(***************************************************************************)
(* Bounds of the model.                                                    *)
(***************************************************************************)
\* largest n_elements handed to the array constructor / init_complete
MaxN == 3
\* number of heap cells the allocator can hand out
NumAddr == 6
\* largest number of nodes of a tree of arbitrary shape (SpecShape)
MaxShape == 3
\* largest number of nodes of the two trees of SpecShape together
ShapeTotal == 4

\* element values (the template parameter T)
Vals == {10, 20}
\* the content of the unused cell 0 of a caller's array (BinaryTree.h:155)
X == 99
\* marks a cell of 'new T[k]' that was never written: its value is
\* indeterminate
Uninit == 77

NULL == 0
Addr == 1..NumAddr
Ptr == Addr \cup {NULL}
Trees == {"a", "b"}
Impls == {"h", "cpp"}

VARIABLES
    impl,         \* which implementation is compiled: "h" or "cpp"
    heap,         \* Addr -> BTNode: the memory
    alloc,        \* the addresses handed out by new and not yet deleted
    root,         \* Trees -> Ptr: BinaryTree::root of each tree object
    constructed,  \* the tree objects whose lifetime has begun and not ended
    op            \* the last operation called, with its arguments

vars == <<impl, heap, alloc, root, constructed, op>>

(***************************************************************************)
(* BTNode and the allocator.                                               *)
(***************************************************************************)
BTNode(elem, left, right) == [elem |-> elem, left |-> left, right |-> right]

\* what a cell holds while it is not allocated
FreeCell == BTNode(Uninit, NULL, NULL)

is_leaf(h, node) == h[node].left = NULL /\ h[node].right = NULL

Max(x, y) == IF x > y THEN x ELSE y

RECURSIVE Pow2(_)
Pow2(k) == IF k <= 0 THEN 1 ELSE 2 * Pow2(k - 1)

\* the machine state the recursive helpers thread through:
\* the memory, the allocated set, the value returned, and the array
\* indices read so far
Mach(h, a) == [heap |-> h, alloc |-> a, ret |-> NULL, reads |-> {},
               dfree |-> FALSE]

\* operator new: the lowest free address (addresses carry no meaning)
NewAddr(a) == CHOOSE p \in Addr \ a : \A q \in Addr \ a : p <= q

\* new BTNode<T>: allocates a cell, contents not yet written
new_BTNode(m) ==
    LET p == NewAddr(m.alloc)
    IN  [m EXCEPT !.alloc = @ \cup {p}, !.ret = p]

\* delete node
delete_BTNode(m, node) ==
    [m EXCEPT !.alloc = @ \ {node},
              !.heap = [@ EXCEPT ![node] = FreeCell],
              !.dfree = @ \/ node \notin m.alloc]

(***************************************************************************)
(* Construction from an array.                                             *)
(***************************************************************************)
\* faulty variant: the end-of-array test is off by one
RECURSIVE init_complete_offbyone(_, _, _, _)
init_complete_offbyone(m, elements, n_elements, index) ==
    IF index >= n_elements
    THEN [m EXCEPT !.ret = NULL]
    ELSE LET m0 == new_BTNode(m)
             p  == m0.ret
             ml == init_complete_offbyone(m0, elements, n_elements, 2 * index)
             mr == init_complete_offbyone(ml, elements, n_elements,
                                          2 * index + 1)
         IN  [mr EXCEPT !.heap = [@ EXCEPT ![p] =
                            BTNode(elements[index], ml.ret, mr.ret)],
                        !.reads = m.reads \cup ml.reads \cup mr.reads
                                      \cup {index},
                        !.ret = p]

\* faulty variant: the two children are built from each other's index
RECURSIVE init_complete_swapped(_, _, _, _)
init_complete_swapped(m, elements, n_elements, index) ==
    IF index > n_elements
    THEN [m EXCEPT !.ret = NULL]
    ELSE LET m0 == new_BTNode(m)
             p  == m0.ret
             ml == init_complete_swapped(m0, elements, n_elements,
                                         2 * index + 1)
             mr == init_complete_swapped(ml, elements, n_elements, 2 * index)
         IN  [mr EXCEPT !.heap = [@ EXCEPT ![p] =
                            BTNode(elements[index], ml.ret, mr.ret)],
                        !.reads = m.reads \cup ml.reads \cup mr.reads
                                      \cup {index},
                        !.ret = p]

RECURSIVE init_complete(_, _, _, _)
init_complete(m, elements, n_elements, index) ==
    IF index > n_elements
    THEN [m EXCEPT !.ret = NULL]
    ELSE LET m0 == new_BTNode(m)
             p  == m0.ret
             ml == init_complete(m0, elements, n_elements, 2 * index)
             mr == init_complete(ml, elements, n_elements, 2 * index + 1)
         IN  [mr EXCEPT !.heap = [@ EXCEPT ![p] =
                            BTNode(elements[index], ml.ret, mr.ret)],
                        !.reads = m.reads \cup ml.reads \cup mr.reads
                                      \cup {index},
                        !.ret = p]

(***************************************************************************)
(* Access and tests.                                                       *)
(***************************************************************************)
\* faulty variant: the right subtree is not counted
RECURSIVE node_count_left(_, _)
node_count_left(h, node) ==
    IF node = NULL
    THEN 0
    ELSE 1 + node_count_left(h, h[node].left)

RECURSIVE node_count(_, _)
node_count(h, node) ==
    IF node = NULL
    THEN 0
    ELSE 1 + node_count(h, h[node].left) + node_count(h, h[node].right)

is_empty(r) == IF r # NULL THEN FALSE ELSE TRUE

\* faulty variant: a leaf has height 0 (edges are counted, not levels)
RECURSIVE height_edges(_, _)
height_edges(h, node) ==
    IF node = NULL THEN 0
    ELSE IF is_leaf(h, node) THEN 0
    ELSE LET lh == height_edges(h, h[node].left) + 1
             rh == height_edges(h, h[node].right) + 1
         IN  IF lh > rh THEN lh ELSE rh

RECURSIVE height(_, _)
height(h, node) ==
    IF node = NULL THEN 0
    ELSE IF is_leaf(h, node) THEN 1
    ELSE LET lh == height(h, h[node].left) + 1
             rh == height(h, h[node].right) + 1
         IN  IF lh > rh THEN lh ELSE rh

\* faulty variant: inner nodes are counted too
RECURSIVE leaf_count_all(_, _)
leaf_count_all(h, node) ==
    IF node = NULL THEN 0
    ELSE IF is_leaf(h, node) THEN 1
    ELSE 1 + leaf_count_all(h, h[node].left)
           + leaf_count_all(h, h[node].right)

RECURSIVE leaf_count(_, _)
leaf_count(h, node) ==
    IF node = NULL THEN 0
    ELSE IF is_leaf(h, node) THEN 1
    ELSE leaf_count(h, h[node].left) + leaf_count(h, h[node].right)

(***************************************************************************)
(* Traversal.  The visitor f is modelled by the log of its calls: each     *)
(* call f(node->elem) is recorded with the node the reference points into  *)
(* and the value it refers to.                                             *)
(***************************************************************************)
Visit(h, node) == [ref |-> node, val |-> h[node].elem]

RECURSIVE preorder(_, _)
preorder(h, node) ==
    IF node = NULL THEN <<>>
    ELSE <<Visit(h, node)>> \o preorder(h, h[node].left)
                            \o preorder(h, h[node].right)

\* faulty variant: the node is visited before its left subtree
RECURSIVE inorder_early(_, _)
inorder_early(h, node) ==
    IF node = NULL THEN <<>>
    ELSE <<Visit(h, node)>> \o inorder_early(h, h[node].left)
                            \o inorder_early(h, h[node].right)

RECURSIVE inorder(_, _)
inorder(h, node) ==
    IF node = NULL THEN <<>>
    ELSE inorder(h, h[node].left) \o <<Visit(h, node)>>
                                  \o inorder(h, h[node].right)

RECURSIVE postorder(_, _)
postorder(h, node) ==
    IF node = NULL THEN <<>>
    ELSE postorder(h, h[node].left) \o postorder(h, h[node].right)
                                    \o <<Visit(h, node)>>

(***************************************************************************)
(* Conversion to arrays.  An array is a function on 0..k.                  *)
(***************************************************************************)
\* new T[k]: k cells, none of them written
new_array(k) == [i \in 0..(k - 1) |-> Uninit]

\* faulty variant: the cell at index max is not written
RECURSIVE to_flat_array_below(_, _, _, _, _)
to_flat_array_below(h, fa, max, node, index) ==
    IF node = NULL
    THEN [fa EXCEPT !.ret = 0]
    ELSE LET f1 == [fa EXCEPT !.max_index = IF index > @ THEN index ELSE @]
             f2 == IF index < max
                   THEN [f1 EXCEPT !.elements =
                                      [@ EXCEPT ![index] = h[node].elem]]
                   ELSE f1
             f3 == to_flat_array_below(h, f2, max, h[node].left, 2 * index)
             f4 == to_flat_array_below(h, f3, max, h[node].right,
                                       2 * index + 1)
         IN  [f4 EXCEPT !.ret = f4.max_index]

\* faulty variant: the recursion stops at the cutoff max
RECURSIVE to_flat_array_stop(_, _, _, _, _)
to_flat_array_stop(h, fa, max, node, index) ==
    IF node = NULL \/ index > max
    THEN [fa EXCEPT !.ret = 0]
    ELSE LET f1 == [fa EXCEPT !.max_index = IF index > @ THEN index ELSE @]
             f2 == [f1 EXCEPT !.elements = [@ EXCEPT ![index] = h[node].elem]]
             f3 == to_flat_array_stop(h, f2, max, h[node].left, 2 * index)
             f4 == to_flat_array_stop(h, f3, max, h[node].right,
                                      2 * index + 1)
         IN  [f4 EXCEPT !.ret = f4.max_index]

\* faulty variant: the cutoff max is not tested before the cell is written
RECURSIVE to_flat_array_nocut(_, _, _, _, _)
to_flat_array_nocut(h, fa, max, node, index) ==
    IF node = NULL
    THEN [fa EXCEPT !.ret = 0]
    ELSE LET f1 == [fa EXCEPT !.max_index = IF index > @ THEN index ELSE @]
             f2 == [f1 EXCEPT !.elements = [@ EXCEPT ![index] = h[node].elem]]
             f3 == to_flat_array_nocut(h, f2, max, h[node].left, 2 * index)
             f4 == to_flat_array_nocut(h, f3, max, h[node].right,
                                       2 * index + 1)
         IN  [f4 EXCEPT !.ret = f4.max_index]

RECURSIVE to_flat_array_at(_, _, _, _, _)
to_flat_array_at(h, fa, max, node, index) ==
    IF node = NULL
    THEN [fa EXCEPT !.ret = 0]
    ELSE LET f1 == [fa EXCEPT !.max_index = IF index > @ THEN index ELSE @]
             f2 == IF index <= max
                   THEN [f1 EXCEPT !.elements =
                                      [@ EXCEPT ![index] = h[node].elem]]
                   ELSE f1
             f3 == to_flat_array_at(h, f2, max, h[node].left, 2 * index)
             f4 == to_flat_array_at(h, f3, max, h[node].right, 2 * index + 1)
         IN  [f4 EXCEPT !.ret = f4.max_index]

\* the public to_flat_array: the buffer afterwards and the value returned
to_flat_array(h, r, elements, max) ==
    to_flat_array_at(h, [elements |-> elements, max_index |-> 1, ret |-> 0],
                     max, r, 1)

\* the values a read of a cell can yield: anything, if it was never written
Read(v) == IF v = Uninit THEN Vals ELSE {v}

\* the arrays init_complete(arr, n) can see: cells 1..n are read
Resolve(arr, n) ==
    LET unwritten == { i \in DOMAIN arr \cap 1..n : arr[i] = Uninit }
    IN  { [i \in DOMAIN arr |-> IF i \in unwritten THEN g[i] ELSE arr[i]] :
              g \in [unwritten -> Vals] }

(***************************************************************************)
(* Helpers of BinaryTree.cpp.                                              *)
(***************************************************************************)
\* faulty variant: a shallow copy, the children are shared with the source
clone_shallow(m, node) ==
    IF node = NULL
    THEN [m EXCEPT !.ret = NULL]
    ELSE LET m0 == new_BTNode(m)
             temp == m0.ret
         IN  [m0 EXCEPT !.heap = [@ EXCEPT ![temp] = m.heap[node]],
                        !.ret = temp]

RECURSIVE clone(_, _)
clone(m, node) ==
    IF node = NULL
    THEN [m EXCEPT !.ret = NULL]
    ELSE LET m0 == new_BTNode(m)
             temp == m0.ret
             ml == clone(m0, m.heap[node].left)
             mr == clone(ml, m.heap[node].right)
         IN  [mr EXCEPT !.heap = [@ EXCEPT ![temp] =
                            BTNode(m.heap[node].elem, ml.ret, mr.ret)],
                        !.ret = temp]

\* faulty variant: the right subtrees are not compared
RECURSIVE compare_left(_, _, _)
compare_left(h, a, b) ==
    IF a = NULL /\ b = NULL THEN TRUE
    ELSE IF a # NULL /\ b # NULL /\ h[a].elem = h[b].elem
         THEN compare_left(h, h[a].left, h[b].left)
         ELSE FALSE

RECURSIVE compare(_, _, _)
compare(h, a, b) ==
    IF a = NULL /\ b = NULL THEN TRUE
    ELSE IF a # NULL /\ b # NULL /\ h[a].elem = h[b].elem
         THEN compare(h, h[a].left, h[b].left)
              /\ compare(h, h[a].right, h[b].right)
         ELSE FALSE

(***************************************************************************)
(* Operators.  operator== of BinaryTree.h reads cells of 'new T[]' arrays  *)
(* that to_flat_array may have left unwritten, so it is given as the set   *)
(* of results it can produce.                                              *)
(***************************************************************************)
\* faulty variant: the last cell is not compared
RECURSIVE EqLoop_short(_, _, _, _)
EqLoop_short(thisElem, srcElem, i, thisNodeNum) ==
    IF i >= thisNodeNum
    THEN {TRUE}
    ELSE UNION { IF x # y THEN {FALSE}
                          ELSE EqLoop_short(thisElem, srcElem, i + 1,
                                            thisNodeNum) :
                 <<x, y>> \in Read(thisElem[i]) \X Read(srcElem[i]) }

RECURSIVE EqLoop(_, _, _, _)
EqLoop(thisElem, srcElem, i, thisNodeNum) ==
    IF i > thisNodeNum
    THEN {TRUE}
    ELSE UNION { IF x # y THEN {FALSE}
                          ELSE EqLoop(thisElem, srcElem, i + 1, thisNodeNum) :
                 <<x, y>> \in Read(thisElem[i]) \X Read(srcElem[i]) }

operator_eq_h(h, this, src) ==
    LET thisNodeNum == node_count(h, this)
        srcNodeNum  == node_count(h, src)
    IN  IF thisNodeNum # srcNodeNum
        THEN {FALSE}
        ELSE LET thisElem == to_flat_array(h, this,
                                 new_array(thisNodeNum + 1), thisNodeNum).elements
                 srcElem  == to_flat_array(h, src,
                                 new_array(srcNodeNum + 1), srcNodeNum).elements
             IN  EqLoop(thisElem, srcElem, 1, thisNodeNum)

operator_eq_cpp(h, this, src) ==
    IF (this # NULL /\ src = NULL) \/ (this = NULL /\ src # NULL)
    THEN FALSE
    ELSE compare(h, this, src)

\* operator== of the compiled implementation: the results it can return
operator_eq(im, h, this, src) ==
    IF im = "h" THEN operator_eq_h(h, this, src)
                ELSE {operator_eq_cpp(h, this, src)}

operator_ne(im, h, this, src) ==
    { ~r : r \in operator_eq(im, h, this, src) }

\* the flat array the copy constructor and operator= of BinaryTree.h build
SrcEle(h, src) ==
    LET srcNodeNum == node_count(h, src)
    IN  to_flat_array(h, src, new_array(srcNodeNum + 1), srcNodeNum).elements

\* root = clone(src.root)  /  root = NULL; init_complete(srcEle, srcNodeNum):
\* the machine states the copy can end in (ret is the new root)
copy_tree(im, m, src) ==
    IF im = "h"
    THEN LET n == node_count(m.heap, src)
         IN  { init_complete(m, arr, n, 1) : arr \in Resolve(SrcEle(m.heap, src), n) }
    ELSE { clone(m, src) }

(***************************************************************************)
(* empty: the helper of empty_this and of the destructor.                  *)
(***************************************************************************)
RECURSIVE empty(_, _)
empty(m, node) ==
    IF node = NULL THEN m
    ELSE IF is_leaf(m.heap, node) THEN delete_BTNode(m, node)
    ELSE empty(empty(m, m.heap[node].left), m.heap[node].right)

(***************************************************************************)
(* The nodes a tree owns, and the memory as the program can observe it.    *)
(***************************************************************************)
RECURSIVE Nodes(_, _)
Nodes(h, node) ==
    IF node = NULL THEN {}
    ELSE {node} \cup Nodes(h, h[node].left) \cup Nodes(h, h[node].right)

\* A cell that no tree reaches can never be read again (there is no
\* pointer to it), so its contents are not tracked: it only stays in alloc.
Observable(h, r) ==
    LET live == UNION { Nodes(h, r[t]) : t \in Trees }
    IN  [p \in Addr |-> IF p \in live THEN h[p] ELSE FreeCell]

(***************************************************************************)
(* Complete-tree numbering (BinaryTree.h:159-166): the root is at 1, the   *)
(* children of the node at i are at 2i and 2i+1.                           *)
(***************************************************************************)
RECURSIVE PosNodes(_, _, _)
PosNodes(h, node, index) ==
    IF node = NULL THEN {}
    ELSE {<<index, node>>} \cup PosNodes(h, h[node].left, 2 * index)
                           \cup PosNodes(h, h[node].right, 2 * index + 1)

\* the positions at which the tree rooted at r has a node
Shape(h, r) == { pn[1] : pn \in PosNodes(h, r, 1) }

\* the tree rooted at r as the set of its <<position, element>> pairs
TreeOf(h, r) == { <<pn[1], h[pn[2]].elem>> : pn \in PosNodes(h, r, 1) }

\* the position of node p in the tree rooted at r
PosOf(h, r, p) == (CHOOSE pn \in PosNodes(h, r, 1) : pn[2] = p)[1]

(***************************************************************************)
(* The state machine: operations on the tree objects of Trees.             *)
(***************************************************************************)
NoArray == <<>>

NoRet == <<>>

\* an operation on tree t: its name, its arguments (the other tree src, or
\* the array elements and the number n), the indices of elements it read
\* and what it returned
Call(name, t, src, n, elements, reads, ret) ==
    [name |-> name, t |-> t, src |-> src, n |-> n, elements |-> elements,
     reads |-> reads, ret |-> ret]

Op(name, t, src, n, elements, reads) ==
    Call(name, t, src, n, elements, reads, NoRet)

\* the caller's arrays for n_elements = n: n + 1 cells, cell 0 unused
ElementArrays(n) ==
    { [i \in 0..Max(n, 0) |-> IF i = 0 THEN X ELSE s[i]] :
          s \in [1..Max(n, 0) -> Vals] }

NSizes == (0 - 1)..MaxN

Free == NumAddr - Cardinality(alloc)

Init ==
    /\ impl \in Impls
    /\ heap = [p \in Addr |-> FreeCell]
    /\ alloc = {}
    /\ root = [t \in Trees |-> NULL]
    /\ constructed = {}
    /\ op = Op("start", "-", "-", 0, NoArray, {})

\* the effect of an operation that ends in machine state m with the root
\* of tree t set to r
Becomes(m, t, r) ==
    /\ root' = [root EXCEPT ![t] = r]
    /\ heap' = Observable(m.heap, [root EXCEPT ![t] = r])
    /\ alloc' = m.alloc

\* BinaryTree()
DefaultCtor(t) ==
    /\ t \notin constructed
    /\ constructed' = constructed \cup {t}
    /\ root' = [root EXCEPT ![t] = NULL]
    /\ op' = Op("BinaryTree()", t, "-", 0, NoArray, {})
    /\ UNCHANGED <<impl, heap, alloc>>

\* BinaryTree(elements, n_elements)
ArrayCtor(t) ==
    /\ t \notin constructed
    /\ \E n \in NSizes : \E elements \in ElementArrays(n) :
         /\ n <= Free
         /\ LET m == init_complete(Mach(heap, alloc), elements, n, 1)
            IN  /\ Becomes(m, t, m.ret)
                /\ op' = Op("BinaryTree(elements,n)", t, "-", n, elements,
                            m.reads)
    /\ constructed' = constructed \cup {t}
    /\ UNCHANGED impl

\* BinaryTree(src)
CopyCtor(t, src) ==
    /\ t \notin constructed
    /\ src \in constructed
    /\ node_count(heap, root[src]) <= Free
    /\ \E m \in copy_tree(impl, Mach(heap, alloc), root[src]) :
         Becomes(m, t, m.ret)
    /\ constructed' = constructed \cup {t}
    /\ op' = Op("BinaryTree(src)", t, src, 0, NoArray, {})
    /\ UNCHANGED impl

\* empty_this()
EmptyThis(t) ==
    /\ t \in constructed
    /\ Becomes(empty(Mach(heap, alloc), root[t]), t, NULL)
    /\ op' = Call("empty_this", t, "-", 0, NoArray, {}, TRUE)
    /\ UNCHANGED <<impl, constructed>>

\* ~BinaryTree()
Dtor(t) ==
    /\ t \in constructed
    /\ Becomes(empty(Mach(heap, alloc), root[t]), t, NULL)
    /\ constructed' = constructed \ {t}
    /\ op' = Op("~BinaryTree", t, "-", 0, NoArray, {})
    /\ UNCHANGED impl

\* init_complete(elements, n_elements)
InitComplete(t) ==
    /\ t \in constructed
    /\ \E n \in NSizes : \E elements \in ElementArrays(n) :
         /\ n <= Free
         /\ LET m == init_complete(Mach(heap, alloc), elements, n, 1)
            IN  /\ Becomes(m, t, m.ret)
                /\ op' = Op("init_complete", t, "-", n, elements, m.reads)
    /\ UNCHANGED <<impl, constructed>>

\* dst = src
Assign(dst, src) ==
    /\ dst \in constructed
    /\ src \in constructed
    /\ node_count(heap, root[src]) <= Free
    /\ \E m \in copy_tree(impl, Mach(heap, alloc), root[src]) :
         Becomes(m, dst, m.ret)
    /\ op' = Op("operator=", dst, src, 0, NoArray, {})
    /\ UNCHANGED <<impl, constructed>>

Next ==
    \/ \E t \in Trees : DefaultCtor(t)
    \/ \E t \in Trees : ArrayCtor(t)
    \/ \E t \in Trees, src \in Trees : CopyCtor(t, src)
    \/ \E t \in Trees : EmptyThis(t)
    \/ \E t \in Trees : Dtor(t)
    \/ \E t \in Trees : InitComplete(t)
    \/ \E dst \in Trees, src \in Trees : Assign(dst, src)

Spec == Init /\ [][Next]_vars

(***************************************************************************)
(* Trees of arbitrary shape.  BinaryTree is written as the base class of   *)
(* more specific trees (BinaryTree.h:42-45): root is protected, and a      *)
(* derived class links nodes with BTNode(elem, left, right) as it likes.   *)
(* SpecShape starts with two trees built that way and calls one of the     *)
(* const operations on them.  These change no tree, so one call per        *)
(* behaviour reaches every result.                                         *)
(***************************************************************************)
\* the node positions of the binary trees with at most k nodes
Shapes(k) ==
    { S \in SUBSET (1..(Pow2(k) - 1)) :
        /\ Cardinality(S) <= k
        /\ \A p \in S : p = 1 \/ (p \div 2) \in S }

\* the trees with at most k nodes: position -> element
AbstractTrees(k) == UNION { [S -> Vals] : S \in Shapes(k) }

\* links the nodes of abstract tree f below position index
RECURSIVE link(_, _, _)
link(m, f, index) ==
    IF index \notin DOMAIN f
    THEN [m EXCEPT !.ret = NULL]
    ELSE LET m0 == new_BTNode(m)
             p  == m0.ret
             ml == link(m0, f, 2 * index)
             mr == link(ml, f, 2 * index + 1)
         IN  [mr EXCEPT !.heap = [@ EXCEPT ![p] =
                            BTNode(f[index], ml.ret, mr.ret)],
                        !.ret = p]

\* the tree of the elements 10, 20, 30
Example == [i \in 1..3 |-> 10 * i]

ShapeInputs == AbstractTrees(MaxShape) \cup {Example}

InitShape ==
    /\ impl \in Impls
    /\ constructed = Trees
    /\ op = Op("built", "-", "-", 0, NoArray, {})
    /\ \E fa \in ShapeInputs, fb \in ShapeInputs :
         /\ Cardinality(DOMAIN fa) + Cardinality(DOMAIN fb) <= ShapeTotal
         /\ LET ma == link(Mach([p \in Addr |-> FreeCell], {}), fa, 1)
                mb == link(ma, fb, 1)
            IN  /\ heap = mb.heap
                /\ alloc = mb.alloc
                /\ root = [t \in Trees |-> IF t = "a" THEN ma.ret ELSE mb.ret]

\* the caller's buffers for to_flat_array(buf, max): max + 1 cells
\* (the max + 1 cells to_flat_array asks for, or room for every position)
Buffers(max) ==
    { [i \in 0..k |-> X] : k \in {Max(max, 0), Max(max, 0) + Pow2(MaxShape)} }

MaxArgs == (0 - 1)..(MaxShape + 1)

\* a const operation: called on the trees as built, it changes none
Const ==
    /\ op.name = "built"
    /\ UNCHANGED <<impl, heap, alloc, root, constructed>>

IsEmpty(t) ==
    /\ Const
    /\ op' = Call("is_empty", t, "-", 0, NoArray, {}, is_empty(root[t]))

NodeCount(t) ==
    /\ Const
    /\ op' = Call("node_count", t, "-", 0, NoArray, {},
                  node_count(heap, root[t]))

Height(t) ==
    /\ Const
    /\ op' = Call("height", t, "-", 0, NoArray, {}, height(heap, root[t]))

LeafCount(t) ==
    /\ Const
    /\ op' = Call("leaf_count", t, "-", 0, NoArray, {},
                  leaf_count(heap, root[t]))

Preorder(t) ==
    /\ Const
    /\ op' = Call("preorder", t, "-", 0, NoArray, {},
                  preorder(heap, root[t]))

Inorder(t) ==
    /\ Const
    /\ op' = Call("inorder", t, "-", 0, NoArray, {}, inorder(heap, root[t]))

Postorder(t) ==
    /\ Const
    /\ op' = Call("postorder", t, "-", 0, NoArray, {},
                  postorder(heap, root[t]))

\* to_flat_array(buf, max): ret holds the buffer afterwards and the value
\* returned
ToFlatArray(t) ==
    /\ Const
    /\ \E max \in MaxArgs : \E buf \in Buffers(max) :
         LET fa == to_flat_array(heap, root[t], buf, max)
         IN  op' = Call("to_flat_array", t, "-", max, buf, {},
                        [elements |-> fa.elements, ret |-> fa.ret])

\* t == src
OperatorEq(t, src) ==
    /\ Const
    /\ \E r \in operator_eq(impl, heap, root[t], root[src]) :
         op' = Call("operator==", t, src, 0, NoArray, {}, r)

\* t != src
OperatorNe(t, src) ==
    /\ Const
    /\ \E r \in operator_ne(impl, heap, root[t], root[src]) :
         op' = Call("operator!=", t, src, 0, NoArray, {}, r)

NextShape ==
    \/ \E t \in Trees : IsEmpty(t)
    \/ \E t \in Trees : NodeCount(t)
    \/ \E t \in Trees : Height(t)
    \/ \E t \in Trees : LeafCount(t)
    \/ \E t \in Trees : Preorder(t)
    \/ \E t \in Trees : Inorder(t)
    \/ \E t \in Trees : Postorder(t)
    \/ \E t \in Trees : ToFlatArray(t)
    \/ \E t \in Trees, src \in Trees : OperatorEq(t, src)
    \/ \E t \in Trees, src \in Trees : OperatorNe(t, src)

SpecShape == InitShape /\ [][NextShape]_vars

(***************************************************************************)
(*                          Properties                                     *)
(***************************************************************************)
\* the last operation built tree op.t from op.elements and op.n
BuiltFromArray == op.name \in {"BinaryTree(elements,n)", "init_complete"}

\* C1: the tree built by BinaryTree(elements, n) / init_complete(elements, n)
\* has a node at complete-tree position i iff 1 <= i <= n, that node holds
\* elements[i], elements[0] is never read, and for n <= 0 the tree is empty.
C1_InitCompleteBuildsCompleteTree ==
    BuiltFromArray =>
        /\ Shape(heap, root[op.t]) = 1..op.n
        /\ TreeOf(heap, root[op.t]) = { <<i, op.elements[i]>> : i \in 1..op.n }
        /\ 0 \notin op.reads
        /\ (op.n <= 0 => root[op.t] = NULL)

C1_Witness ==
    /\ op.name = "init_complete"
    /\ op.n = 3
    /\ op.elements[2] # op.elements[3]
    /\ Shape(heap, root[op.t]) = {1, 2, 3}

\* C2: for n >= 0, node_count() of the tree constructed from an array of n
\* elements is n.
C2_NodeCountIsN ==
    (BuiltFromArray /\ op.n >= 0) => node_count(heap, root[op.t]) = op.n

C2_Witness ==
    /\ op.name = "BinaryTree(elements,n)"
    /\ op.n = 3
    /\ node_count(heap, root[op.t]) = 3

\* the smallest h with 2^h >= k
CeilLog2(k) == CHOOSE h \in 0..k : Pow2(h) >= k /\ \A g \in 0..(h - 1) : Pow2(g) < k

\* C3: for n >= 0, height() of the complete tree built from n elements is
\* ceil(log2(n+1)): the smallest h with 2^h >= n+1; 0 for n = 0, 1 for n = 1.
C3_HeightIsCeilLog2 ==
    (BuiltFromArray /\ op.n >= 0) =>
        /\ height(heap, root[op.t]) = CeilLog2(op.n + 1)
        /\ (op.n = 0 => height(heap, root[op.t]) = 0)
        /\ (op.n = 1 => height(heap, root[op.t]) = 1)

C3_Witness ==
    /\ BuiltFromArray
    /\ op.n = 2
    /\ height(heap, root[op.t]) = 2

\* C4: for n >= 0, leaf_count() of the complete tree built from n elements
\* is 0 when n = 0 and 1 + (n-1)/2 (integer division) when n > 0.
C4_LeafCountFormula ==
    (BuiltFromArray /\ op.n >= 0) =>
        leaf_count(heap, root[op.t]) =
            IF op.n = 0 THEN 0 ELSE 1 + ((op.n - 1) \div 2)

C4_Witness ==
    /\ BuiltFromArray
    /\ op.n = 3
    /\ leaf_count(heap, root[op.t]) = 2

\* C5: round trip: after init_complete(elements, n), to_flat_array(out, n)
\* leaves out[i] = elements[i] for every i in 1..n, i = n included.
C5_RoundTrip ==
    (BuiltFromArray /\ op.n >= 0) =>
        \A out \in Buffers(op.n) :
            LET fa == to_flat_array(heap, root[op.t], out, op.n)
            IN  \A i \in 1..op.n : fa.elements[i] = op.elements[i]

C5_Witness ==
    /\ BuiltFromArray
    /\ op.n = 3
    /\ op.elements[3] # op.elements[2]
    /\ to_flat_array(heap, root[op.t], [i \in 0..3 |-> X], 3).elements[3]
           = op.elements[3]

\* C6: operator== of BinaryTree.cpp (compare) returns true iff the two
\* trees, of any shape, have the same shape and equal elements at
\* corresponding nodes; operator!= returns the negation.
C6_RecursiveEqIsStructural ==
    (impl = "cpp" /\ op.name \in {"operator==", "operator!="}) =>
        LET same == TreeOf(heap, root[op.t]) = TreeOf(heap, root[op.src])
        IN  op.ret = IF op.name = "operator==" THEN same ELSE ~same

C6_Witness ==
    /\ impl = "cpp"
    /\ op.name = "operator=="
    /\ op.ret = FALSE
    /\ node_count(heap, root[op.t]) = node_count(heap, root[op.src])
    /\ Shape(heap, root[op.t]) # Shape(heap, root[op.src])
    /\ \A pn \in PosNodes(heap, root[op.t], 1) :
           heap[pn[2]].elem = heap[root[op.src]].elem

\* C7: operator== of BinaryTree.h (node counts, then the flat arrays at
\* 1..node_count) is reflexive, symmetric and false for any two trees that
\* differ in an element or in shape, whatever the shapes.
C7_FlatEqAnyShape ==
    (impl = "h" /\ op.name = "operator==") =>
        /\ (op.t = op.src => op.ret = TRUE)
        /\ operator_eq_h(heap, root[op.src], root[op.t]) = {op.ret}
        /\ (TreeOf(heap, root[op.t]) # TreeOf(heap, root[op.src])
                => op.ret = FALSE)

\* the allocated nodes that no tree reaches
Unreachable == alloc \ UNION { Nodes(heap, root[t]) : t \in Trees }

\* every node belongs to one tree, and has one place in it
Owned ==
    /\ \A t \in Trees : \A u \in Trees \ {t} :
           Nodes(heap, root[t]) \cap Nodes(heap, root[u]) = {}
    /\ \A t \in Trees :
           Cardinality(Nodes(heap, root[t])) = node_count(heap, root[t])

CopiedEqual ==
    /\ operator_eq(impl, heap, root[op.t], root[op.src]) = {TRUE}
    /\ TreeOf(heap, root[op.t]) = TreeOf(heap, root[op.src])
    /\ Owned

\* C8: after BinaryTree(src) or dst = src the new tree compares equal to src
\* and shares no node with it (every node belongs to one tree); a later
\* empty_this() or init_complete() on one tree leaves the shape and the
\* elements of the other unchanged.
C8_CopyIsEqualAndIndependent ==
    [][ /\ op'.name \in {"BinaryTree(src)", "operator="} =>
            /\ CopiedEqual'
            /\ Nodes(heap', root'[op'.t]) \cap Nodes(heap, root[op'.src]) = {}
        /\ op'.name \in {"empty_this", "init_complete"} =>
            \A u \in Trees \ {op'.t} :
                /\ TreeOf(heap', root'[u]) = TreeOf(heap, root[u])
                /\ Nodes(heap', root'[u]) \subseteq alloc'
      ]_vars

C8_Witness ==
    /\ op.name = "BinaryTree(src)"
    /\ impl = "cpp"
    /\ node_count(heap, root[op.t]) = 3
    /\ TreeOf(heap, root[op.t]) = TreeOf(heap, root[op.src])
    /\ Nodes(heap, root[op.t]) \cap Nodes(heap, root[op.src]) = {}

\* C9: dst = src (dst and src two trees) releases the prior structure of
\* dst: none of the nodes dst owned before stays allocated, and the
\* assignment leaves no node allocated that no tree reaches any more.
C9_AssignReleasesOld ==
    [][ (op'.name = "operator=" /\ op'.t # op'.src) =>
            /\ Nodes(heap, root[op'.t]) \cap alloc' = {}
            /\ Unreachable' \subseteq Unreachable
      ]_vars

\* position p is a proper ancestor of position q
Anc(p, q) == \E k \in 1..MaxShape : q \div Pow2(k) = p
\* position q lies in the subtree below position c
Below(c, q) == q = c \/ Anc(c, q)

\* in the traversal order kind, the node at p is visited before the one at q
Precedes(kind, p, q) ==
    IF Anc(p, q)
    THEN \/ kind = "preorder"
         \/ kind = "inorder" /\ Below(2 * p + 1, q)
    ELSE IF Anc(q, p)
    THEN \/ kind = "postorder"
         \/ kind = "inorder" /\ Below(2 * q, p)
    ELSE \E c \in 1..Pow2(MaxShape) : Below(2 * c, p) /\ Below(2 * c + 1, q)

Traversals == {"preorder", "inorder", "postorder"}

Vals_of(log) == [i \in 1..Len(log) |-> log[i].val]

\* the calls of the visitor are as the traversal op.name promises
Traversed ==
    LET log == op.ret
        r   == root[op.t]
    IN  /\ Len(log) = node_count(heap, r)
        /\ { log[i].ref : i \in 1..Len(log) } = Nodes(heap, r)
        /\ \A i \in 1..Len(log) : \A j \in 1..Len(log) :
               i # j => log[i].ref # log[j].ref
        /\ \A i \in 1..Len(log) : log[i].val = heap[log[i].ref].elem
        /\ \A i \in 1..Len(log) : \A j \in (i + 1)..Len(log) :
               Precedes(op.name, PosOf(heap, r, log[i].ref),
                                 PosOf(heap, r, log[j].ref))
        /\ (r = NULL => log = <<>>)
        /\ TreeOf(heap, r) = { <<i, Example[i]>> : i \in 1..3 } =>
               /\ op.name = "preorder" => Vals_of(log) = <<10, 20, 30>>
               /\ op.name = "inorder" => Vals_of(log) = <<20, 10, 30>>

\* C10: preorder(f), inorder(f) and postorder(f) call f once per node, in
\* the order visit-left-right, left-visit-right, left-right-visit, and leave
\* the tree unchanged; elements 10, 20, 30 are visited as 10, 20, 30 in
\* preorder and as 20, 10, 30 in inorder.
C10_TraversalOrder ==
    [][ op'.name \in Traversals =>
            /\ Traversed'
            /\ heap' = heap /\ root' = root /\ alloc' = alloc
      ]_vars

C10_Witness ==
    /\ op.name = "inorder"
    /\ TreeOf(heap, root[op.t]) = { <<i, Example[i]>> : i \in 1..3 }
    /\ Vals_of(op.ret) = <<20, 10, 30>>

\* the largest number of a set of positions, 0 if there is none
MaxOf(S) == IF S = {} THEN 0 ELSE CHOOSE p \in S : \A q \in S : q <= p

\* C11: to_flat_array(buf, max) returns the largest complete-tree index of
\* a node of the tree, whatever max is (below the node count, 0, negative);
\* for a complete tree that is node_count(), for the empty tree 0.
C11_ReturnsLargestIndex ==
    op.name = "to_flat_array" =>
        LET S == Shape(heap, root[op.t])
        IN  /\ op.ret.ret = MaxOf(S)
            /\ S = 1..Cardinality(S) =>
                   op.ret.ret = node_count(heap, root[op.t])
            /\ root[op.t] = NULL => op.ret.ret = 0

C11_Witness ==
    /\ op.name = "to_flat_array"
    /\ op.n = 0
    /\ Shape(heap, root[op.t]) = {1, 3}
    /\ op.ret.ret = 3

\* C12: to_flat_array(buf, max) sets buf[i] to the element of the node at
\* position i for exactly the node positions i in 1..max and leaves every
\* other cell of buf (cell 0, cells above max, positions without a node)
\* as it was.
C12_WritesOnlyUpToMax ==
    op.name = "to_flat_array" =>
        LET tree == TreeOf(heap, root[op.t])
            S    == Shape(heap, root[op.t])
        IN  /\ DOMAIN op.ret.elements = DOMAIN op.elements
            /\ \A i \in DOMAIN op.elements :
                   IF i \in S /\ 1 <= i /\ i <= op.n
                   THEN <<i, op.ret.elements[i]>> \in tree
                   ELSE op.ret.elements[i] = op.elements[i]

C12_Witness ==
    /\ op.name = "to_flat_array"
    /\ op.n = 2
    /\ Shape(heap, root[op.t]) = {1, 3, 7}
    /\ 7 \in DOMAIN op.elements
    /\ op.ret.elements[1] \in Vals
    /\ op.ret.elements[2] = X
    /\ op.ret.elements[3] = X

\* C13: empty_this() (also run by the destructor) returns true, leaves the
\* tree empty (is_empty(), node_count() 0, height() 0) and frees every node
\* the tree owned, leaf or inner, none of them twice.
C13_EmptyThisFreesAll ==
    [][ op'.name \in {"empty_this", "~BinaryTree"} =>
            /\ op'.name = "empty_this" => op'.ret = TRUE
            /\ is_empty(root'[op'.t])
            /\ node_count(heap', root'[op'.t]) = 0
            /\ height(heap', root'[op'.t]) = 0
            /\ ~empty(Mach(heap, alloc), root[op'.t]).dfree
            /\ Nodes(heap, root[op'.t]) \cap alloc' = {}
      ]_vars

\* the tree rooted at r is complete: its nodes are at 1..node_count
Complete(h, r) == Shape(h, r) = 1..node_count(h, r)

\* C14: after any sequence of the public operations (default, array and copy
\* construction, init_complete, assignment, empty_this, destruction) every
\* tree is a complete binary tree: the precondition of to_flat_array holds.
C14_AlwaysComplete ==
    \A t \in Trees : Complete(heap, root[t])

C14_Witness ==
    /\ op.name = "operator="
    /\ impl = "h"
    /\ op.t # op.src
    /\ Shape(heap, root[op.t]) = {1, 2}
    /\ Shape(heap, root[op.src]) = {1, 2}

\* C15: on trees built by init_complete the two implementations agree:
\* operator== of BinaryTree.h returns what operator== of BinaryTree.cpp
\* returns, and the flat-array copy (copy constructor, operator=) gives a
\* tree of the same shape and elements as clone.
C15_ImplementationsAgree ==
    /\ \A t \in Trees : \A u \in Trees :
           operator_eq_h(heap, root[t], root[u])
               = {operator_eq_cpp(heap, root[t], root[u])}
    /\ \A src \in Trees :
           node_count(heap, root[src]) <= Free =>
               LET c == clone(Mach(heap, alloc), root[src])
                   flat == copy_tree("h", Mach(heap, alloc), root[src])
               IN  /\ flat # {}
                   /\ \A m \in flat :
                          TreeOf(m.heap, m.ret) = TreeOf(c.heap, c.ret)

C15_Witness ==
    /\ BuiltFromArray
    /\ op.n = 2
    /\ Free >= 2
    /\ \E u \in Trees \ {op.t} :
         /\ node_count(heap, root[u]) = 2
         /\ \E e \in Vals :
                TreeOf(heap, root[u]) \ TreeOf(heap, root[op.t]) = {<<2, e>>}
         /\ operator_eq_h(heap, root[op.t], root[u]) = {FALSE}
         /\ operator_eq_cpp(heap, root[op.t], root[u]) = FALSE

====
